---- MODULE Spec2Model ----
(***************************************************************************)
(* The MongoDB library catalog (app/db/library_catalog.py) with the CSV    *)
(* transform pipeline (app/pipelines/transform.py), as a state machine.    *)
(* The books collection is a function from document ids to documents; a    *)
(* document is a function from the names of the fields it has to their     *)
(* values.  rating is kept in hundredths (5.00 is 500).                    *)
(***************************************************************************)
EXTENDS Integers, Sequences, FiniteSets, TLC

VARIABLES store, used, indexes, ing, last, proc, nRated, popDone

vars == <<store, used, indexes, ing, last, proc, nRated, popDone>>

(***************************************************************************)
(* Bounds of the model.                                                    *)
(***************************************************************************)
MaxIds == 2
MaxRows == 2
MaxChunk == 2
MaxRates == 2
MaxProcs == 2

Ids == 1..MaxIds
Procs == 1..MaxProcs

None == <<>>
Some(x) == <<x>>

Min(a, b) == IF a <= b THEN a ELSE b

RECURSIVE SumSeq(_)
SumSeq(s) == IF s = <<>> THEN 0 ELSE s[1] + SumSeq(Tail(s))

(***************************************************************************)
(* Python's round(): to the nearest integer, an exact tie to the even one. *)
(* num / den with den > 0.                                                 *)
(***************************************************************************)
RoundHalfEven(num, den) ==
    LET q == num \div den
        r == num - q * den
    IN  IF 2 * r < den THEN q
        ELSE IF 2 * r > den THEN q + 1
        ELSE IF q % 2 = 0 THEN q ELSE q + 1

(***************************************************************************)
(* The store primitives of pymongo the catalog uses.                       *)
(***************************************************************************)
HasField(doc, f) == f \in DOMAIN doc

SetFieldsReplacing(doc, updates) == updates

\* $set: the named fields are overwritten, the others kept
SetFields(doc, updates) ==
    [f \in DOMAIN doc \cup DOMAIN updates |->
        IF f \in DOMAIN updates THEN updates[f] ELSE doc[f]]

PutDoc(st, id, doc) ==
    [i \in DOMAIN st \cup {id} |-> IF i = id THEN doc ELSE st[i]]

RemoveDoc(st, id) == [i \in DOMAIN st \ {id} |-> st[i]]

\* find_one({"_id": id})
FindOne(st, id) == IF id \in DOMAIN st THEN Some(st[id]) ELSE None

\* find_one_and_replace({"_id": id}, updates, AFTER, upsert): the document
\* becomes the given one
FindOneAndReplace(st, id, updates, upsert) ==
    IF id \in DOMAIN st \/ upsert
    THEN [store |-> PutDoc(st, id, updates), ret |-> Some(updates)]
    ELSE [store |-> st, ret |-> None]

\* find_one_and_update({"_id": id}, {"$set": updates}, AFTER, upsert)
FindOneAndUpdate(st, id, updates, upsert) ==
    IF id \in DOMAIN st
    THEN LET new == SetFields(st[id], updates)
         IN  [store |-> PutDoc(st, id, new), ret |-> Some(new)]
    ELSE IF upsert
    THEN [store |-> PutDoc(st, id, updates), ret |-> Some(updates)]
    ELSE [store |-> st, ret |-> None]

\* decimal digits, for the texts that int(), ObjectId() and the year test read
DigitChars == <<"0", "1", "2", "3", "4", "5", "6", "7", "8", "9">>

IsDigit(c) == \E i \in DOMAIN DigitChars : DigitChars[i] = c

DigitVal(c) == (CHOOSE i \in DOMAIN DigitChars : DigitChars[i] = c) - 1

RECURSIVE DecimalValue(_, _)
DecimalValue(chars, acc) ==
    IF chars = <<>> THEN acc
    ELSE DecimalValue(Tail(chars), 10 * acc + DigitVal(chars[1]))

\* delete_one({"_id": id})
DeleteOne(st, id) ==
    [store |-> RemoveDoc(st, id),
     deleted_count |-> IF id \in DOMAIN st THEN 1 ELSE 0]

DeletedAnyCount(deleted_count) == deleted_count >= 0

\* "return result.deleted_count > 0"
DeletedSomething(deleted_count) == deleted_count > 0

\* str(ObjectId): the text form of an id, here its decimal digits (ids are
\* below 10 in this model)
IdString(id) == <<DigitChars[id + 1]>>

\* ObjectId(text): the id the text stands for, InvalidId when it is no id
ObjectId(chars) ==
    IF chars # <<>> /\ \A i \in DOMAIN chars : IsDigit(chars[i])
    THEN [ok |-> TRUE, v |-> DecimalValue(chars, 0)]
    ELSE [ok |-> FALSE, v |-> 0]

\* a text is equal to no ObjectId, so the filter matches nothing (id 0)
QueryIdUnconverted(q) ==
    IF q.t = "str" THEN [ok |-> TRUE, v |-> 0] ELSE [ok |-> TRUE, v |-> q.v]

\* get_book: a text _id is converted, a native one used as it is
QueryId(q) ==
    IF q.t = "str" THEN ObjectId(q.chars) ELSE [ok |-> TRUE, v |-> q.v]

\* the id insert_one / insert_many gives a document: one never seen before
FreshId(usedIds) == CHOOSE i \in Ids \ usedIds : \A j \in Ids \ usedIds : i <= j

(***************************************************************************)
(* rate_book: the arithmetic.                                              *)
(***************************************************************************)
ValidStarsFromZero(stars) == ~(stars < 0 \/ stars > 5)

ValidStarsBelowFive(stars) == ~(stars < 1 \/ stars >= 5)

\* "if stars < 1 or stars > 5: raise ValueError"
ValidStars(stars) == ~(stars < 1 \/ stars > 5)

\* "if not book: return None"
NotFound(book) == book = None

DefaultRatingsFour == <<0, 0, 0, 0>>

DefaultRatings == <<0, 0, 0, 0, 0>>

\* "[0,0,0,0,0] if not book.get('ratingsByStars') else book['ratingsByStars']":
\* a missing field and an empty list are both falsy
ReadRatings(book) ==
    IF ~HasField(book, "ratingsByStars") \/ book.ratingsByStars = <<>>
    THEN DefaultRatings
    ELSE book.ratingsByStars

BucketIndexAscending(stars) == stars - 1

\* the 0-based bucket "5 - stars"
BucketIndex(stars) == 5 - stars

\* "ratingsByStars[5 - stars] += 1" (the caller has checked the index)
IncrementBucket(ratingsByStars, stars) ==
    [ratingsByStars EXCEPT ![BucketIndex(stars) + 1] = @ + 1]

\* "numRatings = sum(ratingsByStars)"
NumRatings(ratingsByStars) == SumSeq(ratingsByStars)

\* "sum((5 - i) * count for i, count in enumerate(ratingsByStars))"
RECURSIVE WeightedFrom(_, _)
WeightedFrom(s, i) ==
    IF s = <<>> THEN 0 ELSE (5 - i) * s[1] + WeightedFrom(Tail(s), i + 1)

WeightedSum(ratingsByStars) == WeightedFrom(ratingsByStars, 0)

AverageRatingTruncated(ratingsByStars, numRatings) ==
    (100 * WeightedSum(ratingsByStars)) \div numRatings

\* "round(weighted / numRatings, 2)", in hundredths
AverageRating(ratingsByStars, numRatings) ==
    RoundHalfEven(100 * WeightedSum(ratingsByStars), numRatings)

\* "sum(ratingsByStars[0:3])"
LikedCount(ratingsByStars) ==
    SumSeq(SubSeq(ratingsByStars, 1, Min(3, Len(ratingsByStars))))

\* "int(round(liked / numRatings * 100, 0))"
LikedPercent(ratingsByStars, numRatings) ==
    RoundHalfEven(100 * LikedCount(ratingsByStars), numRatings)

\* the updated_data mapping
UpdatedData(ratingsByStars) ==
    LET n == NumRatings(ratingsByStars)
    IN  [ratingsByStars |-> ratingsByStars,
         numRatings |-> n,
         rating |-> AverageRating(ratingsByStars, n),
         likedPercent |-> LikedPercent(ratingsByStars, n)]

\* rate_book between its read and its write: the exception it raises, or the
\* fields it is about to write
RateCompute(book, stars) ==
    LET old == ReadRatings(book)
    IN  IF BucketIndex(stars) >= Len(old)
        THEN [outcome |-> "IndexError"]
        ELSE LET new == IncrementBucket(old, stars)
             IN  IF NumRatings(new) = 0
                 THEN [outcome |-> "ZeroDivisionError"]
                 ELSE [outcome |-> "returned", data |-> UpdatedData(new)]

\* a rate_book that wrote with upsert=True
RateUpsertAlways == TRUE

\* rate_book writes through upsert_book(book_id, updated_data): upsert=False
RateUpsert == FALSE

(***************************************************************************)
(* The transform pipeline.  A CSV cell is [t |-> "nan"] (missing) or a     *)
(* string [t |-> "str", lit |-> ...] with lit the value ast.literal_eval   *)
(* gives for it, None when it is no literal.  A string inside a literal is *)
(* the sequence of its characters.                                         *)
(***************************************************************************)
\* int(x): [ok |-> FALSE] stands for the ValueError / TypeError it raises
IntOf(x) ==
    IF x.t = "int" THEN [ok |-> TRUE, v |-> x.v]
    ELSE IF x.t = "str" /\ x.chars # <<>> /\ \A i \in DOMAIN x.chars : IsDigit(x.chars[i])
    THEN [ok |-> TRUE, v |-> DecimalValue(x.chars, 0)]
    ELSE [ok |-> FALSE, v |-> 0]

\* parse_dict(value)
parse_dict(value) ==
    IF value.t = "str"
    THEN IF value.lit # None THEN value.lit[1] ELSE value
    ELSE value

TransformRatingsByStarsFiveOnly(value) ==
    IF value.t = "list" /\ Len(value.elems) = 5
    THEN [ok |-> \A i \in DOMAIN value.elems : IntOf(value.elems[i]).ok,
          v |-> [i \in DOMAIN value.elems |-> IntOf(value.elems[i]).v]]
    ELSE [ok |-> TRUE, v |-> DefaultRatings]

\* the lambda of __transform_ratings_by_stars, after parse_dict
TransformRatingsByStars(value) ==
    IF value.t = "list"
    THEN IF \A i \in DOMAIN value.elems : IntOf(value.elems[i]).ok
         THEN [ok |-> TRUE,
               v |-> [i \in DOMAIN value.elems |-> IntOf(value.elems[i]).v]]
         ELSE [ok |-> FALSE, v |-> <<>>]
    ELSE [ok |-> TRUE, v |-> DefaultRatings]

(***************************************************************************)
(* Text cells.  The text of an author or publishDate cell is a sequence of *)
(* tokens: " " is whitespace, "," the comma, GoodreadsMarker the literal   *)
(* "(Goodreads Author)", a More* token one spelling of the truncation      *)
(* marker, a digit one character, anything else a run of other characters. *)
(***************************************************************************)
GoodreadsMarker == "(Goodreads Author)"

\* "more" followed by U+2026, as transform.py line 89 spells it
MoreEllipsis == "more[U+2026]"

\* the same in upper case
MoreEllipsisUpper == "MORE[U+2026]"

\* "more" followed by the UTF-8 bytes of U+2026 read as cp1252
MoreMojibake == "more[E2 80 A6 as cp1252]"

\* str.lower() on one token
Lower(tok) ==
    CASE tok = MoreEllipsisUpper -> MoreEllipsis
      [] tok = "Ann" -> "ann"
      [] tok = "Bob" -> "bob"
      [] OTHER -> tok

LowerText(s) == [i \in DOMAIN s |-> Lower(s[i])]

RECURSIVE LStrip(_)
LStrip(s) == IF s # <<>> /\ s[1] = " " THEN LStrip(Tail(s)) ELSE s

RECURSIVE RStrip(_)
RStrip(s) ==
    IF s # <<>> /\ s[Len(s)] = " " THEN RStrip(SubSeq(s, 1, Len(s) - 1)) ELSE s

\* str.strip()
Strip(s) == RStrip(LStrip(s))

\* str.split(","): the pieces between the commas, `cur` the piece being read
RECURSIVE SplitComma(_, _)
SplitComma(s, cur) ==
    IF s = <<>> THEN <<cur>>
    ELSE IF s[1] = "," THEN <<cur>> \o SplitComma(Tail(s), <<>>)
    ELSE SplitComma(Tail(s), Append(cur, s[1]))

\* re.sub(r"\s*\(Goodreads Author\)", "", s): `done` is the text already read
RECURSIVE RemoveGoodreads(_, _)
RemoveGoodreads(s, done) ==
    IF s = <<>> THEN done
    ELSE IF s[1] = GoodreadsMarker THEN RemoveGoodreads(Tail(s), RStrip(done))
    ELSE RemoveGoodreads(Tail(s), Append(done, s[1]))

\* Series.str.replace on one cell: a cell that is no string stays as it is
StrReplace(cell) ==
    IF cell.t = "str"
    THEN [cell EXCEPT !.chars = RemoveGoodreads(cell.chars, <<>>)]
    ELSE cell

\* the entries of lst that pass the test pred[i]
RECURSIVE Keep(_, _)
Keep(lst, pred) ==
    IF lst = <<>> THEN <<>>
    ELSE (IF pred[1] THEN <<lst[1]>> ELSE <<>>) \o Keep(Tail(lst), Tail(pred))

\* parse_list(value)
parse_list(value) ==
    IF value.t = "str"
    THEN LET items == SplitComma(value.chars, <<>>)
             kept == Keep(items, [i \in DOMAIN items |-> Strip(items[i]) # <<>>])
         IN  [i \in DOMAIN kept |-> Strip(kept[i])]
    ELSE <<>>

\* the test of the lambda of __transform_authors, negated
IsTruncationMarker(a) == LowerText(Strip(a)) = <<MoreEllipsis>>

\* the lambda of __transform_authors
DropTruncationMarker(lst) ==
    LET kept == Keep(lst, [i \in DOMAIN lst |-> ~IsTruncationMarker(lst[i])])
    IN  [i \in DOMAIN kept |-> Strip(kept[i])]

\* one cell of chunk["authors"]
TransformAuthors(cell) == DropTruncationMarker(parse_list(StrReplace(cell)))

\* re.fullmatch(r"\d{4}", strvalue)
IsFourDigits(chars) == Len(chars) = 4 /\ \A i \in DOMAIN chars : IsDigit(chars[i])

\* parse_year(value); value.date is what dateutil's fuzzy parse gives for
\* the text, None when it raises
parse_year(value) ==
    IF value.t = "nan" THEN None
    ELSE LET strvalue == Strip(value.chars)
         IN  IF strvalue = <<>> THEN None
             ELSE IF IsFourDigits(strvalue) THEN Some(DecimalValue(strvalue, 0))
             ELSE IF value.date = None THEN None
             ELSE Some(value.date[1].year)

\* the columns __drop_unnecessary_columns drops
DropCols ==
    {"bookId", "firstPublishDate", "coverImg", "bbeScore", "bbeVotes", "price"}

\* the columns __transform_dict_columns parses
DictColumns == {"genres", "characters", "awards", "ratingsByStars", "setting"}

\* the columns of the chunk after transform_chunk
OutColumns(row) ==
    LET cols == DOMAIN row \ DropCols
    IN  (cols \ {"author"})
          \cup (IF "author" \in cols THEN {"authors"} ELSE {})
          \cup (IF "publishDate" \in cols THEN {"publishYear"} ELSE {})

\* transform_chunk on one row, and the record to_dict gives for it
TransformRow(row) ==
    LET r == IF HasField(row, "ratingsByStars")
             THEN TransformRatingsByStars(parse_dict(row.ratingsByStars))
             ELSE [ok |-> TRUE, v |-> <<>>]
    IN  [ok |-> r.ok,
         book |-> [f \in OutColumns(row) |->
                     CASE f = "ratingsByStars" -> r.v
                       [] f = "authors" -> TransformAuthors(row.author)
                       [] f = "publishYear" -> parse_year(row.publishDate)
                       [] f \in DictColumns \ {"ratingsByStars"} -> parse_dict(row[f])
                       [] OTHER -> row[f]]]

\* Series.str on chunk["author"]: pandas gives the accessor only when the
\* column holds strings (an all-missing column is read as float64)
StrAccessor(rows) == \E i \in DOMAIN rows : rows[i].author.t = "str"

\* transform_chunk: the steps run in order over the whole chunk, and one
\* step that raises aborts the chunk
TransformChunk(rows) ==
    IF \E i \in DOMAIN rows : ~TransformRow(rows[i]).ok
    THEN [outcome |-> "ValueError", books |-> <<>>]
    ELSE IF rows # <<>> /\ HasField(rows[1], "author") /\ ~StrAccessor(rows)
    THEN [outcome |-> "AttributeError", books |-> <<>>]
    ELSE [outcome |-> "returned",
          books |-> [i \in DOMAIN rows |-> TransformRow(rows[i]).book]]

\* chunk.head(remaining) / the loop's limit handling
Remaining(limit, total_inserted) == limit - total_inserted

\* insert_many(books): each document gets a fresh id, in order
RECURSIVE InsertMany(_, _, _, _)
InsertMany(st, usedIds, books, ids) ==
    IF books = <<>> THEN [store |-> st, used |-> usedIds, ids |-> ids]
    ELSE LET id == FreshId(usedIds)
         IN  InsertMany(PutDoc(st, id, books[1]), usedIds \cup {id},
                        Tail(books), ids \cup {id})

\* _setup_indexes: the five create_index calls, in order
IndexKeys ==
    <<"authors", "genres", "publishYear", "authors_publishYear",
      "genres_publishYear">>

\* the first k create_index calls done (create_index keeps an existing index)
CreateIndexes(idx, k) == idx \cup {IndexKeys[i] : i \in 1..k}

NeedsIndexesAboveOne(total_inserted) == total_inserted > 1

\* "if total_inserted > 0: self._setup_indexes()"
NeedsIndexes(total_inserted) == total_inserted > 0

StrElem(c) == [t |-> "str", chars |-> <<c>>]
IntElem(k) == [t |-> "int", v |-> k]
ListCell(elems) == [t |-> "str", lit |-> Some([t |-> "list", elems |-> elems])]

RawRows ==
    { [title |-> "rated", numRatings |-> 2,
       ratingsByStars |-> ListCell(<<StrElem("1"), StrElem("0"), StrElem("0"),
                                     StrElem("0"), StrElem("1")>>)],
      [title |-> "unrated", numRatings |-> 0, ratingsByStars |-> ListCell(<<>>)],
      [title |-> "text", numRatings |-> 0,
       ratingsByStars |-> [t |-> "str", lit |-> None]],
      [title |-> "missing", numRatings |-> 0, ratingsByStars |-> [t |-> "nan"]],
      [title |-> "negative", numRatings |-> 0,
       ratingsByStars |-> ListCell(<<IntElem(-1), IntElem(0), IntElem(0),
                                     IntElem(0), IntElem(0)>>)],
      [title |-> "garbled", numRatings |-> 0,
       ratingsByStars |-> ListCell(<<StrElem("x"), StrElem("0"), StrElem("0"),
                                     StrElem("0"), StrElem("0")>>)] }

LimitInputs == {None} \cup {Some(l) : l \in 0..(MaxRows + 1)}

\* cells of a CSV chunk as read_csv hands them over
Missing == [t |-> "nan"]
Str(chars) == [t |-> "str", chars |-> chars]
Undated(chars) == [t |-> "str", chars |-> chars, date |-> None]
Dated(chars, y, m, d) ==
    [t |-> "str", chars |-> chars,
     date |-> Some([year |-> y, month |-> m, day |-> d])]
NoLiteral == [t |-> "str", lit |-> None]
Literal(v) == [t |-> "str", lit |-> Some(v)]

\* rows with the columns of the books dataset that the pipeline touches
CsvRows ==
    { [bookId |-> Str(<<"1">>), title |-> "example",
       author |-> Str(<<"Ann", GoodreadsMarker, ",", " ", "Bob", ",", " ",
                        MoreEllipsis>>),
       publishDate |-> Dated(<<"0", "9", "/", "1", "4", "/", "0", "8">>,
                             2008, 9, 14),
       ratingsByStars |-> ListCell(<<StrElem("5"), StrElem("3"), StrElem("0"),
                                     StrElem("0"), StrElem("0")>>),
       genres |-> ListCell(<<[t |-> "str", chars |-> <<"Fantasy">>]>>)],
      [bookId |-> Str(<<"2">>), title |-> "upper",
       author |-> Str(<<"Ann", " ", GoodreadsMarker, ",", MoreEllipsisUpper,
                        " ">>),
       publishDate |-> Undated(<<"1", "9", "9", "9">>),
       ratingsByStars |-> ListCell(<<IntElem(5), IntElem(3), IntElem(0),
                                     IntElem(0), IntElem(0)>>),
       genres |-> NoLiteral],
      [bookId |-> Str(<<"3">>), title |-> "mojibake",
       author |-> Str(<<"Ann", ",", " ", MoreMojibake>>),
       publishDate |-> Missing,
       ratingsByStars |-> Missing,
       genres |-> Missing],
      [bookId |-> Str(<<"4">>), title |-> "anonymous",
       author |-> Missing,
       publishDate |-> Undated(<<" ">>),
       ratingsByStars |-> NoLiteral,
       genres |-> ListCell(<<>>)],
      [bookId |-> Str(<<"5">>), title |-> "unknown",
       author |-> Missing,
       publishDate |-> Undated(<<"soon">>),
       ratingsByStars |-> Literal([t |-> "dict"]),
       genres |-> ListCell(<<>>)],
      [bookId |-> Str(<<"6">>), title |-> "garbled",
       author |-> Str(<<"Bob">>),
       publishDate |-> Undated(<<" ", "2", "0", "0", "1", " ">>),
       ratingsByStars |-> ListCell(<<StrElem("x"), StrElem("0"), StrElem("0"),
                                     StrElem("0"), StrElem("0")>>),
       genres |-> ListCell(<<>>)],
      [bookId |-> Str(<<"7">>), title |-> "short",
       author |-> Str(<<" ", ",", "Ann", " ", "Bob", " ">>),
       publishDate |-> Undated(<<"tbd">>),
       ratingsByStars |-> ListCell(<<StrElem("1"), StrElem("2"), StrElem("3")>>),
       genres |-> ListCell(<<>>)],
      [bookId |-> Str(<<"8">>), title |-> "number",
       author |-> Str(<<"Ann">>),
       publishDate |-> Dated(<<"Sept", " ", "1", "4", ",", " ", "2", "0", "0",
                               "8">>, 2008, 9, 14),
       ratingsByStars |-> Literal(IntElem(5)),
       genres |-> ListCell(<<>>)],
      [bookId |-> Str(<<"9">>), title |-> "negative",
       author |-> Str(<<MoreEllipsis>>),
       publishDate |-> Missing,
       ratingsByStars |-> ListCell(<<IntElem(-1), IntElem(0), IntElem(0),
                                     IntElem(0), IntElem(0)>>),
       genres |-> ListCell(<<>>)],
      [bookId |-> Str(<<"1", "0">>), title |-> "blank",
       author |-> Str(<<" ">>),
       publishDate |-> Dated(<<"1", "2", "/", "2", "5", "/", "1", "9", "9",
                               "9">>, 1999, 12, 25),
       ratingsByStars |-> ListCell(<<>>),
       genres |-> ListCell(<<>>)] }

\* the chunks handed to transform_chunk
ChunkInputs == UNION {[1..n -> CsvRows] : n \in 1..MaxRows}

(***************************************************************************)
(* The queries.  find and aggregate are the store's; a cursor is modelled  *)
(* by the list it yields when read, a list of document ids.  Where the     *)
(* store leaves the order of equal sort keys open, every order is allowed. *)
(***************************************************************************)
Range(seq) == {seq[i] : i \in DOMAIN seq}

\* the orders in which the ids can be listed
Perms(ids) ==
    {seq \in [1..Cardinality(ids) -> ids] :
        \A i, j \in DOMAIN seq : i # j => seq[i] # seq[j]}

IsBlankUnstripped(text) == text = None \/ text[1] = <<>>

\* "x is None or x.strip() == ''"
IsBlank(text) == text = None \/ Strip(text[1]) = <<>>

\* {"authors": author} / {"genres": genre}: an array field holds the value
ArrayHolds(doc, f, v) == HasField(doc, f) /\ v \in Range(doc[f])

\* {"language": language}: a null filter value matches a missing field
LanguageIs(doc, language) ==
    IF language = None THEN ~HasField(doc, "language")
    ELSE HasField(doc, "language") /\ doc.language = language[1]

PublishYearAtLeast(doc, year) == HasField(doc, "publishYear") /\ doc.publishYear >= year

\* {"publishYear": {"$eq": year}}
PublishYearIs(doc, year) == HasField(doc, "publishYear") /\ doc.publishYear = year

\* the sort key of a document: a missing field sorts as null, below numbers
SortKey(doc, f) == IF HasField(doc, f) THEN Some(doc[f]) ELSE None

KeyLess(a, b) == (a = None /\ b # None) \/ (a # None /\ b # None /\ a[1] < b[1])

\* sort(f, 1) and sort(f, -1)
Ascending == 1
Descending == -1

\* cursor.sort(f, direction) over the matching ids
Sorted(st, ids, f, direction) ==
    {seq \in Perms(ids) :
        \A i, j \in DOMAIN seq :
            i < j => IF direction = Ascending
                     THEN ~KeyLess(SortKey(st[seq[j]], f), SortKey(st[seq[i]], f))
                     ELSE ~KeyLess(SortKey(st[seq[i]], f), SortKey(st[seq[j]], f))}

\* "if limit is not None:"
HasCapUnlessNone(limit) == limit # None

\* "if limit:"
HasCap(limit) == limit # None /\ limit[1] # 0

\* cursor.limit(limit) / {"$limit": limit}
Capped(seq, limit) ==
    IF HasCap(limit) THEN SubSeq(seq, 1, Min(limit[1], Len(seq))) ELSE seq

UnwindFirst(st, f) ==
    {<<i, 1>> : i \in {j \in DOMAIN st : HasField(st[j], f) /\ st[j][f] # <<>>}}

\* {"$unwind": "$f"}: one entry for every element of every document's array
Unwind(st, f) ==
    UNION {{<<i, n>> : n \in DOMAIN st[i][f]} :
             i \in {j \in DOMAIN st : HasField(st[j], f)}}

\* {"$group": {"_id": "$f", "count": {"$sum": 1}}}
Group(st, f) ==
    LET entries == Unwind(st, f)
        keys == {st[e[1]][f][e[2]] : e \in entries}
    IN  {[_id |-> k,
          count |-> Cardinality({e \in entries : st[e[1]][f][e[2]] = k})] :
            k \in keys}

\* {"$sort": {"count": -1}}
SortedByCount(groups) ==
    {seq \in Perms(groups) :
        \A i, j \in DOMAIN seq : i < j => seq[i].count >= seq[j].count}

(***************************************************************************)
(* What callers pass in.                                                   *)
(***************************************************************************)
StarsInputs == 0..6

BookInputs ==
    { [title |-> "A Book"],
      [title |-> "A Book", ratingsByStars |-> <<0, 0, 0, 0, 0>>, numRatings |-> 0],
      [title |-> "A Book", ratingsByStars |-> <<2, 1, 0, 0, 3>>, numRatings |-> 9,
       rating |-> 283, likedPercent |-> 50],
      [title |-> "A Book", ratingsByStars |-> <<>>],
      [title |-> "A Book", ratingsByStars |-> <<2, 1>>] }

NoUpdates == [f \in {} |-> 0]

UpdateInputs ==
    { NoUpdates,
      [title |-> "Renamed", numRatings |-> 9] }

\* the _id of a get_book filter: an ObjectId, its text, or another text
QueryInputs ==
    {[t |-> "oid", v |-> i] : i \in Ids}
        \cup {[t |-> "str", chars |-> IdString(i)] : i \in Ids}
        \cup {[t |-> "str", chars |-> <<"x">>]}

\* a catalog of books with authors, genres, years and ratings; the fourth
\* is the book main.py inserts
CatalogBooks ==
    { [title |-> "First", authors |-> <<<<"Ann">>>>,
       genres |-> <<<<"Fantasy">>, <<"Fiction">>>>, language |-> "English",
       publishDate |-> 20080914, publishYear |-> 2008, rating |-> 450],
      [title |-> "Second", authors |-> <<<<"Ann">>, <<"Bob">>>>,
       genres |-> <<<<"Fantasy">>>>, language |-> "English",
       publishDate |-> 20080101, publishYear |-> 2008, rating |-> 300],
      [title |-> "Third", authors |-> <<<<"Bob">>>>,
       genres |-> <<>>, language |-> "French",
       publishDate |-> 19991225, publishYear |-> 1999, rating |-> 450],
      [title |-> "A Book", authors |-> <<<<"An Author">>>>,
       genres |-> <<<<"Fantasy">>>>, publishDate |-> 20250826],
      [title |-> "Fifth", authors |-> <<<<"Bob">>, <<"Bob">>>>,
       language |-> "English", publishYear |-> 2008] }

AuthorInputs == {None, Some(<<>>), Some(<<" ">>), Some(<<"Ann">>), Some(<<"Bob">>)}

LanguageInputs == {None, Some("English")}

GenreInputs ==
    {None, Some(<<>>), Some(<<" ", " ">>), Some(<<"Fantasy">>), Some(<<"Fiction">>)}

YearInputs == {None, Some(1999), Some(2008)}

QueryLimits == {None} \cup {Some(l) : l \in 0..MaxIds}

IdleProc == [pc |-> "idle"]

IngIdle ==
    [pc |-> "idle", n |-> 0, limit |-> None, chunksize |-> 1, pos |-> 0,
     total_inserted |-> 0, ids |-> {}, chunks |-> 0, idxBefore |-> {},
     usedBefore |-> {}, repeat |-> FALSE]

Init ==
    /\ store = [i \in {} |-> 0]
    /\ used = {}
    /\ indexes = {}
    /\ ing = IngIdle
    /\ last = [op |-> "none"]
    /\ proc = [p \in Procs |-> IdleProc]
    /\ nRated = 0
    /\ popDone = FALSE

(***************************************************************************)
(* The single-client operations: each is one call, run to its return.      *)
(***************************************************************************)
Idle == ing.pc = "idle"

\* insert_book(book)
InsertBook(book) ==
    /\ Idle
    /\ Ids \ used # {}
    /\ LET id == FreshId(used)
       IN  /\ store' = PutDoc(store, id, book)
           /\ used' = used \cup {id}
           /\ last' = [op |-> "insert_book", id |-> id, outcome |-> "returned",
                       book |-> book, ret |-> IdString(id),
                       calls |-> <<"insert_one">>]
    /\ UNCHANGED <<indexes, ing, proc, nRated, popDone>>

\* the last call before this one that was not a get_book
LastWrite == IF last.op = "get_book" THEN last.prev ELSE last

\* get_book({"_id": q})
GetBook(q) ==
    /\ Idle
    /\ LET oid == QueryId(q)
       IN  last' = [op |-> "get_book", query |-> q, prev |-> LastWrite,
                    outcome |-> IF oid.ok THEN "returned" ELSE "InvalidId",
                    ret |-> IF oid.ok THEN FindOne(store, oid.v) ELSE None,
                    calls |-> IF oid.ok THEN <<"find_one">> ELSE <<>>]
    /\ UNCHANGED <<store, used, indexes, ing, proc, nRated, popDone>>

\* upsert_book(book_id, updates, upsert); last.before is the collection at
\* the call
UpsertBook(id, updates, upsert) ==
    /\ Idle
    /\ IF DOMAIN updates = {}
       THEN /\ last' = [op |-> "upsert_book", before |-> store, id |-> id,
                        updates |-> updates,
                        upsert |-> upsert, outcome |-> "ValueError",
                        ret |-> None, calls |-> <<>>]
            /\ UNCHANGED <<store, used>>
       ELSE LET r == FindOneAndUpdate(store, id, updates, upsert)
            IN  /\ store' = r.store
                /\ used' = used \cup DOMAIN r.store
                /\ last' = [op |-> "upsert_book", before |-> store, id |-> id,
                            updates |-> updates,
                            upsert |-> upsert, outcome |-> "returned",
                            ret |-> r.ret, calls |-> <<"find_one_and_update">>]
    /\ UNCHANGED <<indexes, ing, proc, nRated, popDone>>

\* delete_book(book_id)
DeleteBook(id) ==
    /\ Idle
    /\ LET r == DeleteOne(store, id)
       IN  /\ store' = r.store
           /\ last' = [op |-> "delete_book", id |-> id, outcome |-> "returned",
                       ret |-> DeletedSomething(r.deleted_count),
                       calls |-> <<"delete_one">>]
    /\ UNCHANGED <<used, indexes, ing, proc, nRated, popDone>>

\* rate_book(book_id, stars); last.before is the collection at the call
RateBook(id, stars) ==
    /\ Idle
    /\ nRated < MaxRates
    /\ IF ~ValidStars(stars)
       THEN /\ last' = [op |-> "rate_book", before |-> store, id |-> id, stars |-> stars,
                        outcome |-> "ValueError", book |-> None, ret |-> None,
                        calls |-> <<>>]
            /\ UNCHANGED <<store, nRated>>
       ELSE LET book == FindOne(store, id)
            IN  IF NotFound(book)
                THEN /\ last' = [op |-> "rate_book", before |-> store, id |-> id, stars |-> stars,
                                 outcome |-> "returned", book |-> None,
                                 ret |-> None, calls |-> <<"find_one">>]
                     /\ UNCHANGED <<store, nRated>>
                ELSE LET c == RateCompute(book[1], stars)
                     IN  IF c.outcome # "returned"
                         THEN /\ last' = [op |-> "rate_book", before |-> store, id |-> id,
                                          stars |-> stars, outcome |-> c.outcome,
                                          book |-> book, ret |-> None,
                                          calls |-> <<"find_one">>]
                              /\ UNCHANGED <<store, nRated>>
                         ELSE LET r == FindOneAndUpdate(store, id, c.data, RateUpsert)
                              IN  /\ store' = r.store
                                  /\ nRated' = nRated + 1
                                  /\ last' = [op |-> "rate_book", before |-> store, id |-> id,
                                              stars |-> stars,
                                              outcome |-> "returned",
                                              book |-> book, ret |-> r.ret,
                                              calls |-> <<"find_one",
                                                          "find_one_and_update">>]
    /\ UNCHANGED <<used, indexes, ing, proc, popDone>>

(***************************************************************************)
(* populate_from_csv, one step per turn of its loop.  The source has       *)
(* ing.n rows; the reader has handed out ing.pos of them.  The rows of a   *)
(* chunk are chosen when the chunk is read.                                *)
(***************************************************************************)
LimitReached(g) == g.limit # None /\ Remaining(g.limit[1], g.total_inserted) <= 0

\* what is known of a call when it ends: how it ended (returned, or the
\* exception and the store call that raised it), and the loop's variables
PopulateEnd(g, outcome, raisedIn, ret, partial) ==
    [op |-> "populate_from_csv", outcome |-> outcome, raisedIn |-> raisedIn,
     n |-> g.n, limit |-> g.limit, chunksize |-> g.chunksize, ret |-> ret,
     total_inserted |-> g.total_inserted, ids |-> g.ids, partial |-> partial,
     chunks |-> g.chunks, idxBefore |-> g.idxBefore,
     usedBefore |-> g.usedBefore, repeat |-> g.repeat]

OnInsertFailureContinue(g) == g

\* insert_many is not wrapped in try/except: its exception ends the loop
\* and the call
OnInsertFailure(g) == IngIdle

\* the call, up to its loop
PopulateStart(n, limit, chunksize) ==
    /\ Idle
    /\ (IF limit = None THEN n ELSE Min(n, limit[1])) <= Cardinality(Ids \ used)
    /\ ing' = [pc |-> "loop", n |-> n, limit |-> limit, chunksize |-> chunksize,
               pos |-> 0, total_inserted |-> 0, ids |-> {}, chunks |-> 0,
               idxBefore |-> indexes, usedBefore |-> used, repeat |-> popDone]
    /\ last' = [op |-> "populate_from_csv", outcome |-> "running"]
    /\ UNCHANGED <<store, used, indexes, proc, nRated, popDone>>

\* one turn of the loop that does not break
PopulateChunk ==
    /\ ing.pc = "loop"
    /\ ing.pos < ing.n
    /\ ~LimitReached(ing)
    /\ LET size == Min(ing.chunksize, ing.n - ing.pos)
           kept == IF ing.limit = None THEN size
                   ELSE Min(size, Remaining(ing.limit[1], ing.total_inserted))
       IN  \E rows \in [1..kept -> RawRows] :
             LET t == TransformChunk(rows)
                 g == [ing EXCEPT !.chunks = @ + 1]
             IN  IF t.outcome # "returned"
                 THEN \* transform_chunk raised
                      /\ ing' = IngIdle
                      /\ last' = PopulateEnd(g, t.outcome, "transform_chunk",
                                             None, {})
                      /\ popDone' = TRUE
                      /\ UNCHANGED <<store, used>>
                 ELSE \E j \in 0..kept :
                        LET r == InsertMany(store, used, SubSeq(t.books, 1, j), {})
                        IN  /\ store' = r.store
                            /\ used' = r.used
                            /\ IF j = kept
                               THEN /\ ing' = [g EXCEPT
                                                !.pos = @ + size,
                                                !.total_inserted = @ + Len(t.books),
                                                !.ids = @ \cup r.ids]
                                    /\ UNCHANGED <<last, popDone>>
                               ELSE \* insert_many failed after j documents
                                    /\ ing' = OnInsertFailure(g)
                                    /\ last' = PopulateEnd(g, "StoreFailure",
                                                           "insert_many", None,
                                                           r.ids)
                                    /\ popDone' = TRUE
    /\ UNCHANGED <<indexes, proc, nRated>>

\* the loop ends (source exhausted, or break on the limit), then the indexes
PopulateFinish ==
    /\ ing.pc = "loop"
    /\ ing.pos >= ing.n \/ LimitReached(ing)
    /\ IF NeedsIndexes(ing.total_inserted)
       THEN \E k \in 0..Len(IndexKeys) :
              /\ indexes' = CreateIndexes(indexes, k)
              /\ last' = IF k = Len(IndexKeys)
                         THEN PopulateEnd(ing, "returned", "",
                                          Some(ing.total_inserted), {})
                         ELSE PopulateEnd(ing, "StoreFailure", "create_index",
                                          None, {})
       ELSE /\ indexes' = indexes
            /\ last' = PopulateEnd(ing, "returned", "",
                                    Some(ing.total_inserted), {})
    /\ ing' = IngIdle
    /\ popDone' = TRUE
    /\ UNCHANGED <<store, used, proc, nRated>>

(***************************************************************************)
(* rate_book run by several client processes against the same store: the   *)
(* read (get_book) and the write (upsert_book) are two calls to the store. *)
(***************************************************************************)
Ready(p) == proc[p].pc \in {"idle", "returned"}

RateRead(p, id, stars) ==
    /\ Ready(p)
    /\ nRated < MaxRates
    /\ IF ~ValidStars(stars)
       THEN /\ proc' = [proc EXCEPT ![p] =
                          [pc |-> "returned", id |-> id, stars |-> stars,
                           outcome |-> "ValueError", book |-> None, ret |-> None]]
            /\ UNCHANGED nRated
       ELSE LET book == FindOne(store, id)
            IN  IF NotFound(book)
                THEN /\ proc' = [proc EXCEPT ![p] =
                                   [pc |-> "returned", id |-> id, stars |-> stars,
                                    outcome |-> "returned", book |-> None,
                                    ret |-> None]]
                     /\ UNCHANGED nRated
                ELSE /\ proc' = [proc EXCEPT ![p] =
                                   [pc |-> "fetched", id |-> id, stars |-> stars,
                                    book |-> book]]
                     /\ nRated' = nRated + 1
    /\ UNCHANGED <<store, used, indexes, ing, last, popDone>>

\* the write of a rate_book that increments inside the store ($inc), on the
\* document as it is at the write
RateWriteAtomic(p) ==
    /\ proc[p].pc = "fetched"
    /\ LET me == proc[p]
           now == FindOne(store, me.id)
       IN  IF NotFound(now) \/ RateCompute(now[1], me.stars).outcome # "returned"
           THEN /\ proc' = [proc EXCEPT ![p] =
                              [pc |-> "returned", id |-> me.id, stars |-> me.stars,
                               outcome |-> "returned", book |-> me.book,
                               ret |-> None]]
                /\ UNCHANGED store
           ELSE LET r == FindOneAndUpdate(store, me.id,
                                          RateCompute(now[1], me.stars).data,
                                          RateUpsert)
                IN  /\ store' = r.store
                    /\ proc' = [proc EXCEPT ![p] =
                                  [pc |-> "returned", id |-> me.id,
                                   stars |-> me.stars, outcome |-> "returned",
                                   book |-> me.book, ret |-> r.ret]]
    /\ UNCHANGED <<used, indexes, ing, last, nRated, popDone>>

\* the write of a rate_book that increments the bucket inside the store ($inc)
\* and sets the three derived fields from the book as fetched
RateWriteBucketsInStore(p) ==
    /\ proc[p].pc = "fetched"
    /\ LET me == proc[p]
           now == FindOne(store, me.id)
           c == RateCompute(me.book[1], me.stars)
       IN  IF NotFound(now) \/ c.outcome # "returned"
           THEN /\ proc' = [proc EXCEPT ![p] =
                              [pc |-> "returned", id |-> me.id, stars |-> me.stars,
                               outcome |-> "returned", book |-> me.book,
                               ret |-> None]]
                /\ UNCHANGED store
           ELSE LET buckets == IncrementBucket(ReadRatings(now[1]), me.stars)
                    r == FindOneAndUpdate(store, me.id,
                             [c.data EXCEPT !.ratingsByStars = buckets],
                             RateUpsert)
                IN  /\ store' = r.store
                    /\ proc' = [proc EXCEPT ![p] =
                                  [pc |-> "returned", id |-> me.id,
                                   stars |-> me.stars, outcome |-> "returned",
                                   book |-> me.book, ret |-> r.ret]]
    /\ UNCHANGED <<used, indexes, ing, last, nRated, popDone>>

\* the rest of rate_book: compute from the book as fetched, then upsert_book
RateWrite(p) ==
    /\ proc[p].pc = "fetched"
    /\ LET me == proc[p]
           c == RateCompute(me.book[1], me.stars)
       IN  IF c.outcome # "returned"
           THEN /\ proc' = [proc EXCEPT ![p] =
                              [pc |-> "returned", id |-> me.id, stars |-> me.stars,
                               outcome |-> c.outcome, book |-> me.book,
                               ret |-> None]]
                /\ UNCHANGED store
           ELSE LET r == FindOneAndUpdate(store, me.id, c.data, RateUpsert)
                IN  /\ store' = r.store
                    /\ proc' = [proc EXCEPT ![p] =
                                  [pc |-> "returned", id |-> me.id,
                                   stars |-> me.stars, outcome |-> "returned",
                                   book |-> me.book, ret |-> r.ret]]
    /\ UNCHANGED <<used, indexes, ing, last, nRated, popDone>>

(***************************************************************************)
(* Specifications.                                                         *)
(***************************************************************************)
\* one client that inserts, rates and deletes books
Next ==
    \/ \E book \in BookInputs : InsertBook(book)
    \/ \E id \in Ids : DeleteBook(id)
    \/ \E id \in Ids, stars \in StarsInputs : RateBook(id, stars)

Spec == Init /\ [][Next]_vars

\* one client that inserts, updates and deletes books
NextUpdate ==
    \/ \E book \in BookInputs : InsertBook(book)
    \/ \E id \in Ids, updates \in UpdateInputs, upsert \in BOOLEAN :
          UpsertBook(id, updates, upsert)
    \/ \E id \in Ids : DeleteBook(id)

SpecUpdate == Init /\ [][NextUpdate]_vars

\* one client that ingests CSV sources
NextIngest ==
    \/ \E n \in 0..MaxRows, limit \in LimitInputs, chunksize \in 1..MaxChunk :
          PopulateStart(n, limit, chunksize)
    \/ PopulateChunk
    \/ PopulateFinish

SpecIngest == Init /\ [][NextIngest]_vars

\* one client that ingests CSV sources and rates the ingested books
NextIngestRate ==
    \/ NextIngest
    \/ \E id \in Ids, stars \in StarsInputs : RateBook(id, stars)

SpecIngestRate == Init /\ [][NextIngestRate]_vars

\* a query that raised ValueError before it reached the store
Rejected(op, arg, limit) ==
    [op |-> op, arg |-> arg, limit |-> limit, outcome |-> "ValueError",
     ret |-> <<>>, calls |-> <<>>]

\* a query answered by the store
Answered(op, arg, limit, ret, call) ==
    [op |-> op, arg |-> arg, limit |-> limit, outcome |-> "returned",
     ret |-> ret, calls |-> <<call>>]

\* get_books_by_author(author, language, limit), and the cursor read
GetBooksByAuthor(author, language, limit) ==
    /\ Idle
    /\ IF IsBlank(author)
       THEN last' = [Rejected("get_books_by_author", author, limit)
                     EXCEPT !.arg = [author |-> author, language |-> language]]
       ELSE \E seq \in Sorted(store,
                              {i \in DOMAIN store :
                                  /\ ArrayHolds(store[i], "authors", author[1])
                                  /\ LanguageIs(store[i], language)},
                              "publishDate", Ascending) :
              last' = [Answered("get_books_by_author", author, limit,
                                Capped(seq, limit), "find")
                       EXCEPT !.arg = [author |-> author, language |-> language]]
    /\ UNCHANGED <<store, used, indexes, ing, proc, nRated, popDone>>

\* get_top_rated_books_by_genre(genre, limit), and the cursor read
GetTopRatedBooksByGenre(genre, limit) ==
    /\ Idle
    /\ IF IsBlank(genre)
       THEN last' = Rejected("get_top_rated_books_by_genre", genre, limit)
       ELSE \E seq \in Sorted(store,
                              {i \in DOMAIN store :
                                  ArrayHolds(store[i], "genres", genre[1])},
                              "rating", Descending) :
              last' = Answered("get_top_rated_books_by_genre", genre, limit,
                               Capped(seq, limit), "find")
    /\ UNCHANGED <<store, used, indexes, ing, proc, nRated, popDone>>

\* get_top_rated_books_by_year(year, limit), and the cursor read
GetTopRatedBooksByYear(year, limit) ==
    /\ Idle
    /\ IF year = None
       THEN last' = Rejected("get_top_rated_books_by_year", year, limit)
       ELSE \E seq \in Sorted(store,
                              {i \in DOMAIN store : PublishYearIs(store[i], year[1])},
                              "rating", Descending) :
              last' = Answered("get_top_rated_books_by_year", year, limit,
                               Capped(seq, limit), "find")
    /\ UNCHANGED <<store, used, indexes, ing, proc, nRated, popDone>>

\* get_genre_counts(limit)
GetGenreCounts(limit) ==
    /\ Idle
    /\ \E seq \in SortedByCount(Group(store, "genres")) :
          last' = Answered("get_genre_counts", "genres", limit,
                           Capped(seq, limit), "aggregate")
    /\ UNCHANGED <<store, used, indexes, ing, proc, nRated, popDone>>

\* get_author_counts(limit)
GetAuthorCounts(limit) ==
    /\ Idle
    /\ \E seq \in SortedByCount(Group(store, "authors")) :
          last' = Answered("get_author_counts", "authors", limit,
                           Capped(seq, limit), "aggregate")
    /\ UNCHANGED <<store, used, indexes, ing, proc, nRated, popDone>>

\* one client that fills a catalog and queries it; its upsert_book calls
\* are the ones with no updates
NextQuery ==
    \/ \E book \in CatalogBooks : InsertBook(book)
    \/ \E author \in AuthorInputs, language \in LanguageInputs,
          limit \in QueryLimits : GetBooksByAuthor(author, language, limit)
    \/ \E genre \in GenreInputs, limit \in QueryLimits :
          GetTopRatedBooksByGenre(genre, limit)
    \/ \E year \in YearInputs, limit \in QueryLimits :
          GetTopRatedBooksByYear(year, limit)
    \/ \E limit \in QueryLimits : GetGenreCounts(limit)
    \/ \E limit \in QueryLimits : GetAuthorCounts(limit)
    \/ \E id \in Ids, upsert \in BOOLEAN : UpsertBook(id, NoUpdates, upsert)

SpecQuery == Init /\ [][NextQuery]_vars

\* the books of the catalog that hold every field the queries read
ShelfBooks ==
    {book \in CatalogBooks :
        {"authors", "genres", "language", "publishYear", "rating"}
            \subseteq DOMAIN book}

\* the authors asked for in the queries at the edge
ShelfAuthors == {Some(<<"Ann">>), Some(<<"Bob">>)}

\* the limits at the edge: absent, zero and one
EdgeLimits == {None, Some(0), Some(1)}

\* one client that fills a catalog, ingests CSV sources and queries, with
\* limits at the edge
NextLimit ==
    \/ \E book \in ShelfBooks : InsertBook(book)
    \/ \E n \in 0..MaxRows, limit \in EdgeLimits \ {None},
          chunksize \in 1..MaxChunk : PopulateStart(n, limit, chunksize)
    \/ PopulateChunk
    \/ PopulateFinish
    \/ \E author \in ShelfAuthors, limit \in EdgeLimits :
          GetBooksByAuthor(author, Some("English"), limit)
    \/ \E limit \in EdgeLimits :
          GetTopRatedBooksByGenre(Some(<<"Fantasy">>), limit)
    \/ \E limit \in EdgeLimits : GetTopRatedBooksByYear(Some(2008), limit)
    \/ \E limit \in EdgeLimits : GetGenreCounts(limit)
    \/ \E limit \in EdgeLimits : GetAuthorCounts(limit)

SpecLimit == Init /\ [][NextLimit]_vars

\* one client that inserts, looks up and deletes books
NextLookup ==
    \/ \E book \in BookInputs : InsertBook(book)
    \/ \E q \in QueryInputs : GetBook(q)
    \/ \E id \in Ids : DeleteBook(id)

SpecLookup == Init /\ [][NextLookup]_vars

\* a chunk has been read from the CSV source
InitTransform ==
    /\ store = [i \in {} |-> 0]
    /\ used = {}
    /\ indexes = {}
    /\ ing = IngIdle
    /\ \E rows \in ChunkInputs : last = [op |-> "read_csv", chunk |-> rows]
    /\ proc = [p \in Procs |-> IdleProc]
    /\ nRated = 0
    /\ popDone = FALSE

\* transform_chunk(chunk) on the chunk that was read
TransformCall ==
    /\ last.op = "read_csv"
    /\ LET t == TransformChunk(last.chunk)
       IN  last' = [op |-> "transform_chunk", chunk |-> last.chunk,
                    outcome |-> t.outcome, records |-> t.books]
    /\ UNCHANGED <<store, used, indexes, ing, proc, nRated, popDone>>

NextTransform == TransformCall

SpecTransform == InitTransform /\ [][NextTransform]_vars

\* several clients rating a book that was inserted before they start
InitRace ==
    /\ store = [i \in {1} |-> [title |-> "A Book"]]
    /\ used = {1}
    /\ indexes = {}
    /\ ing = IngIdle
    /\ last = [op |-> "insert_book", id |-> 1, outcome |-> "returned",
                book |-> [title |-> "A Book"], ret |-> IdString(1),
                calls |-> <<"insert_one">>]
    /\ proc = [p \in Procs |-> IdleProc]
    /\ nRated = 0
    /\ popDone = FALSE

NextRace ==
    \/ \E p \in Procs, id \in Ids, stars \in StarsInputs : RateRead(p, id, stars)
    \/ \E p \in Procs : RateWrite(p)

SpecRace == InitRace /\ [][NextRace]_vars

\* the stars given while books are being deleted: a liked and a disliked one
DeleteRaceStars == {2, 5}

\* processes that rate the book while a client deletes books
NextRaceDelete ==
    \/ \E p \in Procs, id \in Ids, stars \in DeleteRaceStars :
          RateRead(p, id, stars)
    \/ \E p \in Procs : RateWrite(p)
    \/ \E id \in Ids : DeleteBook(id)

SpecRaceDelete == InitRace /\ [][NextRaceDelete]_vars

(***************************************************************************)
(* The catalog as a scoped resource: main() constructs it in a with        *)
(* statement and calls every operation inside the with block.              *)
(* proc[MainProc] is the position of main(): pc is "start", "constructed", *)
(* "body" (inside the block), "exiting" (the block has been left and       *)
(* __exit__ is due) or "done"; client is "none", "open" or "closed"; exc   *)
(* is the exception in flight.                                             *)
(***************************************************************************)
MainProc == 1

HostInputs == {Some(<<>>), Some(<<" ">>), Some(<<"localhost">>)}

PortInputs == {0, 27017}

DbNameInputs == {Some(<<>>), Some(<<"becode">>), Some(<<"be", " ", "code">>)}

\* the driver rejects a database name that holds a space
ValidDbName(db_name) == " " \notin Range(db_name[1])

AtMain(pc, client, entered, exc) ==
    [proc EXCEPT ![MainProc] =
        [pc |-> pc, client |-> client, entered |-> entered, exc |-> exc]]

\* MongoDbLibraryCatalog(host, port, db_name)
Construct(host, port, db_name) ==
    /\ proc[MainProc].pc = "start"
    /\ IF IsBlank(host) \/ port <= 0 \/ IsBlank(db_name)
       THEN proc' = AtMain("done", "none", FALSE, Some("ValueError"))
       ELSE IF ~ValidDbName(db_name)
       THEN \* MongoClient(...) has returned and self._client[db_name] raises
            proc' = AtMain("done", "open", FALSE, Some("InvalidName"))
       ELSE proc' = AtMain("constructed", "open", FALSE, None)
    /\ UNCHANGED <<store, used, indexes, ing, last, nRated, popDone>>

\* __enter__ returns the catalog and the with block starts
Enter ==
    /\ proc[MainProc].pc = "constructed"
    /\ proc' = AtMain("body", proc[MainProc].client, TRUE, None)
    /\ UNCHANGED <<store, used, indexes, ing, last, nRated, popDone>>

\* the last operation called in the block raised
Raised == last.op # "none" /\ last.outcome # "returned"

\* main() is inside the block and about to call an operation
InBody == proc[MainProc].pc = "body" /\ ~Raised

\* the exception of an operation leaves the block
Propagate ==
    /\ proc[MainProc].pc = "body"
    /\ Raised
    /\ proc' = AtMain("exiting", proc[MainProc].client, TRUE, Some(last.outcome))
    /\ UNCHANGED <<store, used, indexes, ing, last, nRated, popDone>>

\* the block ends after its last statement
Leave ==
    /\ InBody
    /\ proc' = AtMain("exiting", proc[MainProc].client, TRUE, None)
    /\ UNCHANGED <<store, used, indexes, ing, last, nRated, popDone>>

\* close(): self._client.close()
Close(client) == "closed"

\* an __exit__ that closes only when the block ended without exception
ExitScopeOnSuccessOnly ==
    /\ proc[MainProc].pc = "exiting"
    /\ proc' = AtMain("done",
                      IF proc[MainProc].exc = None
                      THEN Close(proc[MainProc].client)
                      ELSE proc[MainProc].client,
                      TRUE, proc[MainProc].exc)
    /\ UNCHANGED <<store, used, indexes, ing, last, nRated, popDone>>

\* __exit__(exc_type, exc_value, traceback): close(), and the None it returns
\* lets the exception go on to the except clause of main()
ExitScope ==
    /\ proc[MainProc].pc = "exiting"
    /\ proc' = AtMain("done", Close(proc[MainProc].client), TRUE,
                      proc[MainProc].exc)
    /\ UNCHANGED <<store, used, indexes, ing, last, nRated, popDone>>

InitScope ==
    /\ store = [i \in {} |-> 0]
    /\ used = {}
    /\ indexes = {}
    /\ ing = IngIdle
    /\ last = [op |-> "none"]
    /\ proc = [p \in Procs |->
                 IF p = MainProc
                 THEN [pc |-> "start", client |-> "none", entered |-> FALSE,
                       exc |-> None]
                 ELSE IdleProc]
    /\ nRated = 0
    /\ popDone = FALSE

\* main(): the constructor, the with block and its operations, __exit__
NextScope ==
    \/ \E host \in HostInputs, port \in PortInputs, db_name \in DbNameInputs :
          Construct(host, port, db_name)
    \/ Enter
    \/ InBody /\ \E book \in BookInputs : InsertBook(book)
    \/ InBody /\ \E id \in Ids, updates \in UpdateInputs, upsert \in BOOLEAN :
          UpsertBook(id, updates, upsert)
    \/ InBody /\ \E id \in Ids : DeleteBook(id)
    \/ Propagate
    \/ Leave
    \/ ExitScope

SpecScope == InitScope /\ [][NextScope]_vars

(***************************************************************************)
(* Properties.                                                             *)
(***************************************************************************)
\* the last call was a rate_book that returned a document
Rated == last.op = "rate_book" /\ last.outcome = "returned" /\ last.ret # None

\* x is num / den rounded to an integer (den > 0; a tie may go either way)
Nearest(x, num, den) ==
    2 * (IF num - x * den >= 0 THEN num - x * den ELSE x * den - num) <= den

\* the buckets rate_book starts from, for the book it fetched
StartBuckets(book) ==
    IF "ratingsByStars" \in DOMAIN book /\ Len(book.ratingsByStars) > 0
    THEN book.ratingsByStars
    ELSE <<0, 0, 0, 0, 0>>

FirstThree(b) == SumSeq([j \in 1..Min(3, Len(b)) |-> b[j]])

StarsTimesCount(b) == SumSeq([j \in 1..Len(b) |-> (6 - j) * b[j]])

\* C1: after a successful rate_book the stored document is the returned one,
\* its numRatings is the sum of the buckets, its rating is the star-weighted
\* sum over numRatings rounded to 2 decimals, its likedPercent is 100 times
\* the 5-, 4- and 3-star buckets over numRatings rounded to an integer; from
\* [0,0,0,0,0], 5 stars gives [1,0,0,0,0]/1/5.00/100 and then 1 star gives
\* [1,0,0,0,1]/2/3.00/50.
C1_RateBookRecomputes ==
    Rated =>
        LET d == last.ret[1]
            b == d.ratingsByStars
            start == StartBuckets(last.book[1])
        IN  /\ last.id \in DOMAIN store
            /\ store[last.id] = d
            /\ d.numRatings = SumSeq(b)
            /\ Nearest(d.rating, 100 * StarsTimesCount(b), d.numRatings)
            /\ Nearest(d.likedPercent, 100 * FirstThree(b), d.numRatings)
            /\ (start = <<0, 0, 0, 0, 0>> /\ last.stars = 5) =>
                   /\ b = <<1, 0, 0, 0, 0>>
                   /\ d.numRatings = 1 /\ d.rating = 500 /\ d.likedPercent = 100
            /\ (start = <<1, 0, 0, 0, 0>> /\ last.stars = 1) =>
                   /\ b = <<1, 0, 0, 0, 1>>
                   /\ d.numRatings = 2 /\ d.rating = 300 /\ d.likedPercent = 50

\* the second rating of the example: a stored [1,0,0,0,0] rated 1 star
C1_Witness ==
    /\ Rated
    /\ last.stars = 1
    /\ "ratingsByStars" \in DOMAIN last.book[1]
    /\ last.book[1].ratingsByStars = <<1, 0, 0, 0, 0>>
    /\ store[last.id].ratingsByStars = <<1, 0, 0, 0, 1>>
    /\ store[last.id].numRatings = 2
    /\ store[last.id].rating = 300
    /\ store[last.id].likedPercent = 50

\* C2: a successful rate_book(id, stars) adds 1 to the bucket at index
\* 5 - stars (0-based) and leaves every other bucket as it was; a book with
\* no ratingsByStars (none, or an empty one) starts from five zeros.
C2_OneBucketIncremented ==
    Rated =>
        LET old == StartBuckets(last.book[1])
            new == store[last.id].ratingsByStars
        IN  /\ Len(new) = Len(old)
            /\ \A j \in 1..Len(new) :
                  new[j] = old[j] + (IF j - 1 = 5 - last.stars THEN 1 ELSE 0)
            /\ "ratingsByStars" \notin DOMAIN last.book[1] =>
                  \A j \in 1..5 : new[j] = (IF j - 1 = 5 - last.stars THEN 1 ELSE 0)

\* a book without ratingsByStars rated 2 stars
C2_Witness ==
    /\ Rated
    /\ "ratingsByStars" \notin DOMAIN last.book[1]
    /\ last.stars = 2
    /\ store[last.id].ratingsByStars = <<0, 0, 0, 1, 0>>

\* C3, as claimed: every stored book has a ratingsByStars of length 5 and a
\* numRatings equal to its sum.
C3_EveryBookWellFormed ==
    \A id \in DOMAIN store :
        /\ "ratingsByStars" \in DOMAIN store[id]
        /\ Len(store[id].ratingsByStars) = 5
        /\ "numRatings" \in DOMAIN store[id]
        /\ store[id].numRatings = SumSeq(store[id].ratingsByStars)

\* C3, amended: the book a successful rate_book has just written has a
\* numRatings equal to the sum of its ratingsByStars, and a ratingsByStars of
\* length 5 when the one it had was missing, empty or of length 5.
C3_RatedBookWellFormed ==
    Rated =>
        LET d == store[last.id]
            before == last.book[1]
        IN  /\ {"ratingsByStars", "numRatings"} \subseteq DOMAIN d
            /\ d.numRatings = SumSeq(d.ratingsByStars)
            /\ ("ratingsByStars" \notin DOMAIN before
                  \/ Len(before.ratingsByStars) \in {0, 5})
               => Len(d.ratingsByStars) = 5

\* a book inserted with a stale numRatings, and one with no ratingsByStars,
\* after a rating
C3_Witness ==
    /\ Rated
    /\ \/ /\ "numRatings" \in DOMAIN last.book[1]
          /\ last.book[1].numRatings # SumSeq(last.book[1].ratingsByStars)
       \/ "ratingsByStars" \notin DOMAIN last.book[1]
    /\ Len(store[last.id].ratingsByStars) = 5
    /\ store[last.id].numRatings = SumSeq(store[last.id].ratingsByStars)

\* C4, as claimed: rate_book never divides by zero, whatever book of the
\* store it rates.
C4_NeverDividesByZero ==
    last.op = "rate_book" => last.outcome # "ZeroDivisionError"

\* C5: rate_book with stars outside 1..5 raises ValueError before any call
\* to the store, and the store is as it was.
C5_InvalidStarsRejected ==
    (last.op = "rate_book" /\ (last.stars < 1 \/ last.stars > 5))
        => (/\ last.outcome = "ValueError"
            /\ last.calls = <<>>
            /\ store = last.before)

\* 6 stars on a book that is in the store
C5_Witness ==
    /\ last.op = "rate_book"
    /\ last.stars = 6
    /\ last.id \in DOMAIN store
    /\ last.outcome = "ValueError"
    /\ last.calls = <<>>

\* C6: rate_book with stars in 1..5 and an id no stored book has returns
\* None, raises nothing, creates no document and leaves the store as it was.
C6_MissingBookReturnsNone ==
    (/\ last.op = "rate_book"
     /\ last.stars \in 1..5
     /\ last.id \notin DOMAIN last.before)
        => (/\ last.outcome = "returned"
            /\ last.ret = None
            /\ store = last.before)

\* a valid rating of an id that was deleted, another book being stored
C6_Witness ==
    /\ last.op = "rate_book"
    /\ last.stars \in 1..5
    /\ last.id \notin DOMAIN store
    /\ last.id \in used
    /\ DOMAIN store # {}
    /\ last.outcome = "returned"
    /\ last.ret = None

\* p and q have both returned a document from rate_book on the same book,
\* which they fetched in the same state, and q wrote last
BothRated(p, q) ==
    /\ p # q
    /\ proc[p].pc = "returned" /\ proc[q].pc = "returned"
    /\ proc[p].outcome = "returned" /\ proc[q].outcome = "returned"
    /\ proc[p].ret # None /\ proc[q].ret # None
    /\ proc[p].id = proc[q].id
    /\ proc[p].book = proc[q].book
    /\ proc[q].id \in DOMAIN store
    /\ store[proc[q].id] = proc[q].ret[1]

\* C7: when two processes interleave the read and the write of rate_book on
\* the same book, both calls return a document and the stored numRatings has
\* grown by 1 only.
C7_LostRating ==
    \A p, q \in Procs :
        BothRated(p, q) =>
            store[proc[q].id].numRatings =
                SumSeq(StartBuckets(proc[p].book[1])) + 1

\* both calls returned, each its own bucket, and one rating is gone
C7_Witness ==
    \E p, q \in Procs :
        /\ BothRated(p, q)
        /\ proc[p].stars = 5 /\ proc[q].stars = 1
        /\ proc[p].ret[1].ratingsByStars = <<1, 0, 0, 0, 0>>
        /\ store[proc[q].id].ratingsByStars = <<0, 0, 0, 0, 1>>
        /\ store[proc[q].id].numRatings = 1

\* the last call was a populate_from_csv that has ended
Populated == last.op = "populate_from_csv" /\ last.outcome # "running"

AllIndexes == {IndexKeys[i] : i \in DOMAIN IndexKeys}

\* C8, as claimed: with a limit L and no store failure, populate_from_csv
\* inserts min(L, N) documents and returns that number, and the running total
\* never exceeds L.
C8_InsertsMinOfLimitAndRows ==
    /\ (ing.pc = "loop" /\ ing.limit # None) =>
           ing.total_inserted <= ing.limit[1]
    /\ (Populated /\ last.limit # None /\ last.outcome # "StoreFailure") =>
           /\ last.outcome = "returned"
           /\ last.ret = Some(Min(last.limit[1], last.n))
           /\ Cardinality(last.ids) = Min(last.limit[1], last.n)
           /\ last.ids \subseteq DOMAIN store

C10_StoreFailureAborts ==
    (Populated /\ last.outcome = "StoreFailure" /\ last.raisedIn = "insert_many") =>
        /\ last.ret = None
        /\ ing.pc = "idle"
        /\ Cardinality(last.ids) = last.total_inserted
        /\ last.ids \subseteq DOMAIN store
        /\ DOMAIN store \ last.usedBefore = last.ids \cup last.partial
        /\ indexes = last.idxBefore

\* the second chunk fails, the first chunk's document stays
C10_Witness ==
    /\ Populated
    /\ last.outcome = "StoreFailure"
    /\ last.raisedIn = "insert_many"
    /\ last.chunks = 2
    /\ last.total_inserted = 1
    /\ last.ids \subseteq DOMAIN store
    /\ last.ids # {}

(***************************************************************************)
(* The transform pipeline (SpecTransform).                                 *)
(***************************************************************************)
Transformed == last.op = "transform_chunk" /\ last.outcome = "returned"

\* C11: transform_chunk raises for no chunk, and gives one record per row.
C11_TransformNeverRaises ==
    last.op = "transform_chunk" =>
        /\ last.outcome = "returned"
        /\ Len(last.records) = Len(last.chunk)

\* C12: after transform_chunk every record's publishDate is a date or null,
\* never the text of the cell; publishYear is an integer or null, and the
\* year of publishDate when that is a date.
C12_PublishDateNormalized ==
    Transformed =>
        \A i \in DOMAIN last.records :
            LET rec == last.records[i]
            IN  /\ rec.publishDate.t \in {"date", "null"}
                /\ rec.publishYear = None \/ rec.publishYear[1] \in Int
                /\ rec.publishDate.t = "date" =>
                       rec.publishYear = Some(rec.publishDate.year)

\* the cell is the text of a list literal
IsListLiteral(cell) ==
    cell.t = "str" /\ cell.lit # None /\ cell.lit[1].t = "list"

\* the number an element of a parsed list stands for
ElemNumber(e) == IF e.t = "int" THEN e.v ELSE DecimalValue(e.chars, 0)

\* C13: after transform_chunk a record's ratingsByStars is [0,0,0,0,0] when
\* the cell is not the text of a list, and otherwise the list of the same
\* length holding the integer of each element; ['5','3','0','0','0'] gives
\* [5,3,0,0,0].
C13_RatingsByStarsNormalized ==
    Transformed =>
        \A i \in DOMAIN last.records :
            LET cell == last.chunk[i].ratingsByStars
                out == last.records[i].ratingsByStars
            IN  /\ ~IsListLiteral(cell) => out = <<0, 0, 0, 0, 0>>
                /\ IsListLiteral(cell) =>
                       /\ Len(out) = Len(cell.lit[1].elems)
                       /\ \A k \in DOMAIN out :
                              out[k] = ElemNumber(cell.lit[1].elems[k])
                /\ last.chunk[i].title = "example" => out = <<5, 3, 0, 0, 0>>

\* a chunk with a short list of digit strings and a missing cell
C13_Witness ==
    /\ Transformed
    /\ \E j, k \in DOMAIN last.records :
          /\ last.chunk[j].title = "short"
          /\ last.records[j].ratingsByStars = <<1, 2, 3>>
          /\ last.chunk[k].ratingsByStars = Missing
          /\ last.records[k].ratingsByStars = <<0, 0, 0, 0, 0>>

\* the entry is the truncation marker in either spelling, whatever its case
IsTruncationMarkerAnySpelling(a) ==
    LowerText(Strip(a)) \in {<<MoreEllipsis>>, <<MoreMojibake>>}

\* C14: after transform_chunk the author column is gone and authors holds
\* the names of the cell in order, without the "(Goodreads Author)" marker,
\* trimmed, and without the truncation marker in either spelling.
C14_AuthorsCleaned ==
    Transformed =>
        \A i \in DOMAIN last.records :
            LET rec == last.records[i]
            IN  /\ "author" \notin DOMAIN rec
                /\ "authors" \in DOMAIN rec
                /\ \A k \in DOMAIN rec.authors :
                      LET a == rec.authors[k]
                      IN  /\ \A n \in DOMAIN a : a[n] # GoodreadsMarker
                          /\ a = Strip(a)
                          /\ ~IsTruncationMarkerAnySpelling(a)
                /\ last.chunk[i].title = "example" =>
                       rec.authors = <<<<"Ann">>, <<"Bob">>>>


(***************************************************************************)
(* Lookup and deletion (SpecLookup).                                       *)
(***************************************************************************)
\* the filter names the id of the call `w`, as an ObjectId or as its text
NamesIdOf(q, w) ==
    q \in {[t |-> "oid", v |-> w.id], [t |-> "str", chars |-> IdString(w.id)]}

\* C15: get_book by the id insert_book returned, as an ObjectId or as its
\* text, returns the inserted document; get_book by an id that delete_book
\* was just called on returns None.
C15_RoundTrip ==
    (last.op = "get_book" /\ last.prev.op \in {"insert_book", "delete_book"}
       /\ NamesIdOf(last.query, last.prev)) =>
        /\ last.outcome = "returned"
        /\ last.prev.op = "insert_book" =>
               /\ last.prev.ret = IdString(last.prev.id)
               /\ last.ret = Some(last.prev.book)
        /\ last.prev.op = "delete_book" => last.ret = None

\* the book just inserted, found by the text of its id while another book
\* is stored as well
C15_Witness ==
    /\ last.op = "get_book"
    /\ last.prev.op = "insert_book"
    /\ last.query = [t |-> "str", chars |-> last.prev.ret]
    /\ last.ret = Some(last.prev.book)
    /\ "ratingsByStars" \in DOMAIN last.prev.book
    /\ Cardinality(DOMAIN store) = 2

\* C18: delete_book(id) returns True exactly when a document with that id
\* was stored and the call removed it; no other document is touched, none
\* is added, and a delete_book right after one on the same id returns False.
C18_DeleteReturnsWhetherRemoved ==
    [][last'.op = "delete_book" =>
         /\ last'.ret = (last'.id \in DOMAIN store /\ last'.id \notin DOMAIN store')
         /\ last'.id \notin DOMAIN store'
         /\ DOMAIN store' \subseteq DOMAIN store
         /\ \A j \in DOMAIN store \ {last'.id} :
                j \in DOMAIN store' /\ store'[j] = store[j]
         /\ (last.op = "delete_book" /\ last.id = last'.id) => last'.ret = FALSE
      ]_vars

\* one of two stored books deleted
C18_Witness ==
    /\ last.op = "delete_book"
    /\ last.ret = TRUE
    /\ last.id \notin DOMAIN store
    /\ DOMAIN store # {}

(***************************************************************************)
(* Updates (SpecUpdate).                                                   *)
(***************************************************************************)
Updated ==
    last.op = "upsert_book" /\ DOMAIN last.updates # {}

\* every document but the one with id `id` is as it was before the call
OthersUntouched(id) ==
    /\ DOMAIN store \ {id} = DOMAIN last.before \ {id}
    /\ \A j \in DOMAIN store \ {id} : store[j] = last.before[j]

\* C16: upsert_book with updates that are not empty: on a stored book the
\* fields named in updates take the new values, the other fields stay, and
\* the new document is returned; on an id that is not stored, None and no
\* change without upsert, and with upsert one new document holding the
\* update fields, which is returned.
C16_UpsertBook ==
    Updated =>
        /\ last.outcome = "returned"
        /\ OthersUntouched(last.id)
        /\ last.id \in DOMAIN last.before =>
               LET old == last.before[last.id]
                   new == store[last.id]
               IN  /\ DOMAIN new = DOMAIN old \cup DOMAIN last.updates
                   /\ \A f \in DOMAIN last.updates : new[f] = last.updates[f]
                   /\ \A f \in DOMAIN old \ DOMAIN last.updates : new[f] = old[f]
                   /\ last.ret = Some(new)
        /\ (last.id \notin DOMAIN last.before /\ ~last.upsert) =>
               /\ last.ret = None
               /\ store = last.before
        /\ (last.id \notin DOMAIN last.before /\ last.upsert) =>
               /\ last.id \in DOMAIN store
               /\ store[last.id] = last.updates
               /\ last.ret = Some(last.updates)

\* a stored book with ratings renamed, its ratingsByStars kept, next to a
\* document an earlier upsert created
C16_Witness ==
    /\ Updated
    /\ last.id \in DOMAIN last.before
    /\ "ratingsByStars" \in DOMAIN last.before[last.id]
    /\ store[last.id].title = "Renamed"
    /\ store[last.id].ratingsByStars = last.before[last.id].ratingsByStars
    /\ \E j \in DOMAIN store \ {last.id} : store[j] = last.updates

(***************************************************************************)
(* The queries (SpecQuery).                                                *)
(***************************************************************************)
\* no text, or a text of nothing but whitespace
NothingButSpace(text) ==
    text = None \/ \A n \in DOMAIN text[1] : text[1][n] = " "

\* the call was given an argument the claim calls invalid
InvalidArgument ==
    \/ last.op = "get_books_by_author" /\ NothingButSpace(last.arg.author)
    \/ last.op = "get_top_rated_books_by_genre" /\ NothingButSpace(last.arg)
    \/ last.op = "get_top_rated_books_by_year" /\ last.arg = None
    \/ last.op = "upsert_book" /\ DOMAIN last.updates = {}

\* C17: a blank author, a blank genre, a null year and an empty updates
\* mapping are each rejected with ValueError before any call to the store.
C17_ValidationBeforeStore ==
    InvalidArgument =>
        /\ last.outcome = "ValueError"
        /\ last.calls = <<>>
        /\ last.op = "upsert_book" => store = last.before

\* a genre of two spaces asked of a catalog that holds books
C17_Witness ==
    /\ last.op = "get_top_rated_books_by_genre"
    /\ last.arg = Some(<<" ", " ">>)
    /\ last.outcome = "ValueError"
    /\ last.calls = <<>>
    /\ DOMAIN store # {}

\* the rating the store sorts a book by: -1 stands for a missing one
RatingOf(i) == IF "rating" \in DOMAIN store[i] THEN store[i].rating ELSE -1

\* the stored books of the year asked for
OfTheYear ==
    {i \in DOMAIN store :
        "publishYear" \in DOMAIN store[i] /\ store[i].publishYear = last.arg[1]}

\* C19: get_top_rated_books_by_year(year, limit) lists books of that year
\* only, each once, by rating descending; all of them without a positive
\* limit, and with one the `limit` best of them.
C19_TopRatedByYear ==
    (last.op = "get_top_rated_books_by_year" /\ last.outcome = "returned") =>
        /\ Range(last.ret) \subseteq OfTheYear
        /\ \A i, j \in DOMAIN last.ret :
              /\ i # j => last.ret[i] # last.ret[j]
              /\ i < j => RatingOf(last.ret[i]) >= RatingOf(last.ret[j])
        /\ (last.limit = None \/ last.limit = Some(0)) =>
               Range(last.ret) = OfTheYear
        /\ (last.limit # None /\ last.limit # Some(0)) =>
               /\ Len(last.ret) = Min(last.limit[1], Cardinality(OfTheYear))
               /\ \A i \in Range(last.ret), j \in OfTheYear \ Range(last.ret) :
                      RatingOf(i) >= RatingOf(j)

\* two books of 2008 listed best first, the better one inserted second
C19_Witness ==
    /\ last.op = "get_top_rated_books_by_year"
    /\ last.arg = Some(2008)
    /\ last.limit = None
    /\ Len(last.ret) = 2
    /\ last.ret[1] > last.ret[2]
    /\ RatingOf(last.ret[1]) > RatingOf(last.ret[2])

\* how often the key occurs in the field of the stored book i
Occurrences(i, f, k) ==
    IF i \in DOMAIN store /\ f \in DOMAIN store[i]
    THEN Cardinality({n \in DOMAIN store[i][f] : store[i][f][n] = k})
    ELSE 0

\* how many entries the field of the stored book i has
Entries(i, f) ==
    IF i \in DOMAIN store /\ f \in DOMAIN store[i] THEN Len(store[i][f]) ELSE 0

\* C20: get_genre_counts and get_author_counts report, for each key once,
\* the number of times it occurs in the lists of all stored books, by count
\* descending; without a positive limit every key is reported and the
\* counts add up to the number of list entries, and with one at most
\* `limit` keys are.
C20_FanOutCounts ==
    (last.op \in {"get_genre_counts", "get_author_counts"}) =>
        LET f == last.arg
            total == SumSeq([i \in Ids |-> Entries(i, f)])
        IN  /\ \A n \in DOMAIN last.ret :
                  last.ret[n].count =
                      SumSeq([i \in Ids |-> Occurrences(i, f, last.ret[n]._id)])
            /\ \A n, m \in DOMAIN last.ret :
                  /\ n # m => last.ret[n]._id # last.ret[m]._id
                  /\ n < m => last.ret[n].count >= last.ret[m].count
            /\ (last.limit = None \/ last.limit = Some(0)) =>
                   SumSeq([n \in DOMAIN last.ret |-> last.ret[n].count]) = total
            /\ (last.limit # None /\ last.limit # Some(0)) =>
                   Len(last.ret) <= last.limit[1]

\* two books and three genre entries: Fantasy twice, Fiction once
C20_Witness ==
    /\ last.op = "get_genre_counts"
    /\ last.limit = None
    /\ Cardinality(DOMAIN store) = 2
    /\ last.ret = <<[_id |-> <<"Fantasy">>, count |-> 2],
                    [_id |-> <<"Fiction">>, count |-> 1]>>

\* the four rating fields
RatingFields == {"ratingsByStars", "numRatings", "rating", "likedPercent"}

\* the derived fields of doc agree with the buckets stored beside them
DerivedAgree(doc) ==
    /\ RatingFields \subseteq DOMAIN doc
    /\ doc.numRatings = SumSeq(doc.ratingsByStars)
    /\ Nearest(doc.rating, 100 * StarsTimesCount(doc.ratingsByStars),
               doc.numRatings)
    /\ Nearest(doc.likedPercent, 100 * FirstThree(doc.ratingsByStars),
               doc.numRatings)

\* C22: while several processes interleave the reads and writes of rate_book
\* on a book, every stored state of the book that holds one of the four
\* rating fields holds all four, with numRatings, rating and likedPercent
\* computed from the ratingsByStars stored beside them.
C22_FieldsStayConsistent ==
    \A id \in DOMAIN store :
        (DOMAIN store[id] \cap RatingFields # {}) => DerivedAgree(store[id])

\* two processes fetched the same state of the book, 4 stars and 2 stars; the
\* second write dropped the 4-star rating and the stored fields still agree
C22_Witness ==
    \E p, q \in Procs :
        /\ BothRated(p, q)
        /\ proc[p].stars = 4 /\ proc[q].stars = 2
        /\ proc[p].ret[1].ratingsByStars = <<0, 1, 0, 0, 0>>
        /\ store[proc[q].id].ratingsByStars = <<0, 0, 0, 1, 0>>
        /\ store[proc[q].id].numRatings = 1
        /\ store[proc[q].id].rating = 200
        /\ store[proc[q].id].likedPercent = 0

\* p is between the read and the write of rate_book, and its book is gone
DeletedUnder(p) == proc[p].pc = "fetched" /\ proc[p].id \notin DOMAIN store

\* C23: no step of rate_book adds a book to the store, and when the book was
\* deleted between the read and the write of a rate_book, the write makes
\* rate_book return None and the book is still absent after it.
C23_NeverResurrects ==
    [][/\ DOMAIN store' \subseteq DOMAIN store
       /\ \A p \in Procs :
             (DeletedUnder(p) /\ proc'[p].pc = "returned") =>
                 /\ proc'[p].outcome = "returned"
                 /\ proc'[p].ret = None
                 /\ proc'[p].id \notin DOMAIN store']_vars

\* a rate_book that fetched the book, lost it to a successful delete_book and
\* returned None, the store being empty
C23_Witness ==
    \E p \in Procs :
        /\ proc[p].pc = "returned"
        /\ proc[p].outcome = "returned"
        /\ proc[p].stars \in 1..5
        /\ proc[p].book # None
        /\ proc[p].ret = None
        /\ last.op = "delete_book" /\ last.id = proc[p].id /\ last.ret = TRUE
        /\ store = <<>>

\* C24: a rate_book call leaves the set of stored ids, every other book and
\* every field of the rated book other than ratingsByStars, numRatings,
\* rating and likedPercent as they were at the call, and adds no field but
\* these four; the numRatings a successful call stores is the sum of the
\* stored buckets, so a stored numRatings that disagreed with the buckets
\* becomes the sum of the old buckets plus 1.
C24_RateBookFrame ==
    last.op = "rate_book" =>
        /\ DOMAIN store = DOMAIN last.before
        /\ \A j \in DOMAIN store \ {last.id} : store[j] = last.before[j]
        /\ last.id \in DOMAIN store =>
              LET old == last.before[last.id]
                  new == store[last.id]
              IN  /\ DOMAIN old \subseteq DOMAIN new
                  /\ DOMAIN new \subseteq DOMAIN old \cup RatingFields
                  /\ \A f \in DOMAIN old \ RatingFields : new[f] = old[f]
                  /\ Rated =>
                        /\ new.numRatings = SumSeq(new.ratingsByStars)
                        /\ new.numRatings = SumSeq(StartBuckets(old)) + 1
        /\ ~Rated => store = last.before

\* a book stored with numRatings 9 over buckets that sum to 6 is rated beside
\* another book: it keeps its title and its numRatings becomes 7
C24_Witness ==
    /\ Rated
    /\ Cardinality(DOMAIN store) = 2
    /\ "numRatings" \in DOMAIN last.before[last.id]
    /\ last.before[last.id].numRatings = 9
    /\ SumSeq(last.before[last.id].ratingsByStars) = 6
    /\ store[last.id].numRatings = 7
    /\ store[last.id].title = last.before[last.id].title

\* the stored books that list v in their field f
Listing(f, v) ==
    {i \in DOMAIN store :
        f \in DOMAIN store[i] /\ \E n \in DOMAIN store[i][f] : store[i][f][n] = v}

\* the stored books the last query asked for
Asked ==
    IF last.op = "get_books_by_author"
    THEN {i \in Listing("authors", last.arg.author[1]) :
             IF last.arg.language = None
             THEN "language" \notin DOMAIN store[i]
             ELSE /\ "language" \in DOMAIN store[i]
                  /\ store[i].language = last.arg.language[1]}
    ELSE IF last.op = "get_top_rated_books_by_genre"
    THEN Listing("genres", last.arg[1])
    ELSE OfTheYear

\* the values the stored books list in their field f
Listed(f) ==
    UNION {Range(store[i][f]) : i \in {j \in DOMAIN store : f \in DOMAIN store[j]}}

\* C25: populate_from_csv with limit=0 returns 0, reads no chunk, inserts no
\* document and creates no index, whereas each of the five queries with
\* limit=0 returns every matching result, as many as with no limit.
C25_LimitZero ==
    /\ (Populated /\ last.limit = Some(0)) =>
           /\ last.outcome = "returned"
           /\ last.ret = Some(0)
           /\ last.chunks = 0
           /\ last.ids = {} /\ last.partial = {}
           /\ used = last.usedBefore
           /\ indexes = last.idxBefore
    /\ (/\ last.op \in {"get_books_by_author", "get_top_rated_books_by_genre",
                        "get_top_rated_books_by_year"}
        /\ last.outcome = "returned"
        /\ last.limit \in {None, Some(0)}) =>
           /\ Range(last.ret) = Asked
           /\ Len(last.ret) = Cardinality(Asked)
    /\ (/\ last.op \in {"get_genre_counts", "get_author_counts"}
        /\ last.limit \in {None, Some(0)}) =>
           /\ {last.ret[n]._id : n \in DOMAIN last.ret} = Listed(last.arg)
           /\ Len(last.ret) = Cardinality(Listed(last.arg))

\* a two-row source ingested with limit=0 into a catalog of two books that
\* has no index
C25_Witness ==
    /\ Populated
    /\ last.limit = Some(0)
    /\ last.n = 2
    /\ last.ret = Some(0)
    /\ Cardinality(DOMAIN store) = 2
    /\ indexes = {}

\* C21: a with block that was entered is left through __exit__, which closes
\* the client whether the block ended normally or an operation in it raised;
\* the exception goes on; and once the client is closed no operation is
\* called and the store is not written.
C21_ReleasedOnEveryExit ==
    [][LET main == proc[MainProc]
           then == proc'[MainProc]
       IN  /\ (main.entered /\ main.pc # "done" /\ then.pc = "done") =>
                  /\ main.pc = "exiting"
                  /\ then.client = "closed"
                  /\ then.exc = main.exc
           /\ (then.pc = "done" /\ then.entered) => then.client = "closed"
           /\ main.client = "closed" => (store' = store /\ last' = last)]_vars

\* an upsert_book with no updates raised ValueError inside the block after a
\* book was inserted; the block was left and the client is closed
C21_Witness ==
    /\ proc[MainProc].pc = "done"
    /\ proc[MainProc].entered
    /\ proc[MainProc].exc = Some("ValueError")
    /\ proc[MainProc].client = "closed"
    /\ last.op = "upsert_book"
    /\ DOMAIN store # {}

====
